---- MODULE Spec2Model ----
(***************************************************************************)
(* A model of src/src/components/ImageProcessor.tsx: the per-pixel colour   *)
(* transform applyFilters and the ImageProcessor component's handlers.      *)
(*                                                                         *)
(* Numbers.  The source computes in IEEE-754 doubles.  The model computes   *)
(* the same sequence of operations in exact rational arithmetic extended    *)
(* with +Infinity, -Infinity and NaN, which follow the IEEE rules           *)
(* (x/0, Infinity*0, Infinity-Infinity, NaN propagation).  A finite number  *)
(* is kept as i + n/d with 0 <= n < d and gcd(n, d) = 1, so that every      *)
(* integer the model handles stays small.  The rounding error of a double  *)
(* (at most a few units in the 16th digit) is not modelled; it can change   *)
(* a stored byte only where the exact value is within that error of a       *)
(* rounding tie k + 1/2.                                                    *)
(***************************************************************************)
EXTENDS Integers, Sequences, FiniteSets

VARIABLES
    \* ---- the ImageProcessor component (useState / useRef / callbacks in flight)
    sourceUrl,      \* useState<string | null>(null)
    processedUrl,   \* useState<string | null>(null)
    presetName,     \* useState(filterPresets[0].name)
    statusMessage,  \* useState("Upload an image to begin.")
    isProcessing,   \* useState(false)
    canvas,         \* the pixels held by the <canvas> element (when mounted)
    uploads,        \* the FileReader / Image callbacks started by handleFileChange
    timers,         \* the window.setTimeout callbacks started by handleProcess
    resets,         \* the Image loads started by handleReset
    downloaded,     \* the href of the last link handleDownload clicked
    \* ---- a direct call of applyFilters(imageData, preset)
    fInput,         \* imageData.data as it was when the last call started
    fData,          \* imageData.data now
    fPreset,        \* the preset argument
    fCalls          \* how many calls have been made on this buffer

appVars == <<sourceUrl, processedUrl, presetName, statusMessage, isProcessing,
             canvas, uploads, timers, resets, downloaded>>
filterVars == <<fInput, fData, fPreset, fCalls>>
vars == <<sourceUrl, processedUrl, presetName, statusMessage, isProcessing,
          canvas, uploads, timers, resets, downloaded,
          fInput, fData, fPreset, fCalls>>

----------------------------------------------------------------------------
(* Bounds of the model. *)
MaxPixels == 2
MaxCalls == 2
MaxUploads == 2

----------------------------------------------------------------------------
(* Extended exact arithmetic standing for the JavaScript number type. *)

RECURSIVE GCD(_, _)
GCD(a, b) == IF b = 0 THEN a ELSE GCD(b, a % b)

Abs(a) == IF a < 0 THEN -a ELSE a

NaN == [k |-> "nan", i |-> 0, n |-> 0, d |-> 1]
PosInf == [k |-> "pinf", i |-> 0, n |-> 0, d |-> 1]
NegInf == [k |-> "ninf", i |-> 0, n |-> 0, d |-> 1]

\* The finite number I + N/D (D > 0, N any integer), normalised.
Fin(I, N, D) ==
    LET q == N \div D
        r == N % D
        g == GCD(D, r)
    IN  [k |-> "fin", i |-> I + q, n |-> r \div g, d |-> D \div g]

Num(v) == Fin(v, 0, 1)
\* The decimal literal a/b of the source (b > 0).
Lit(a, b) == Fin(0, a, b)

IsFin(x) == x.k = "fin"
IsNaN(x) == x.k = "nan"
IsInf(x) == x.k \in {"pinf", "ninf"}

Sign(x) ==
    CASE x.k = "pinf" -> 1
      [] x.k = "ninf" -> -1
      [] x.k = "nan" -> 0
      [] OTHER -> IF x.i < 0 THEN -1 ELSE IF x.i = 0 /\ x.n = 0 THEN 0 ELSE 1

Signed(s) == IF s > 0 THEN PosInf ELSE IF s < 0 THEN NegInf ELSE NaN

Neg(x) ==
    CASE x.k = "pinf" -> NegInf
      [] x.k = "ninf" -> PosInf
      [] x.k = "nan" -> NaN
      [] OTHER -> Fin(-x.i, -x.n, x.d)

Add(x, y) ==
    IF IsNaN(x) \/ IsNaN(y) THEN NaN
    ELSE IF IsInf(x) /\ IsInf(y) THEN (IF x.k = y.k THEN x ELSE NaN)
    ELSE IF IsInf(x) THEN x
    ELSE IF IsInf(y) THEN y
    ELSE LET g == GCD(x.d, y.d)
             L == (x.d \div g) * y.d
         IN  Fin(x.i + y.i, x.n * (L \div x.d) + y.n * (L \div y.d), L)

Sub(x, y) == Add(x, Neg(y))

Mul(x, y) ==
    IF IsNaN(x) \/ IsNaN(y) THEN NaN
    ELSE IF IsInf(x) \/ IsInf(y) THEN Signed(Sign(x) * Sign(y))
    ELSE LET g1 == GCD(y.d, x.n)
             g2 == GCD(x.d, y.n)
             ff == IF x.n = 0 \/ y.n = 0 THEN Num(0)
                   ELSE Fin(0, (x.n \div g1) * (y.n \div g2),
                               (x.d \div g2) * (y.d \div g1))
         IN  Add(Add(Num(x.i * y.i), Fin(0, x.i * y.n, y.d)),
                 Add(Fin(0, y.i * x.n, x.d), ff))

\* x/y as one exact quotient of the two improper fractions.
Div(x, y) ==
    IF IsNaN(x) \/ IsNaN(y) THEN NaN
    ELSE IF IsInf(y) THEN (IF IsInf(x) THEN NaN ELSE Num(0))
    ELSE IF Sign(y) = 0 THEN Signed(Sign(x))
    ELSE IF IsInf(x) THEN Signed(Sign(x) * Sign(y))
    ELSE LET X == x.i * x.d + x.n
             Y == y.i * y.d + y.n
             g1 == GCD(Abs(X), Abs(Y))
             g2 == GCD(x.d, y.d)
             nn == (X \div g1) * (y.d \div g2)
             dd == (Y \div g1) * (x.d \div g2)
         IN  IF dd > 0 THEN Fin(0, nn, dd) ELSE Fin(0, -nn, -dd)

\* x < y; false when either is NaN, as in JavaScript.
Less(x, y) ==
    IF IsNaN(x) \/ IsNaN(y) THEN FALSE
    ELSE IF x = y THEN FALSE
    ELSE IF IsInf(x) THEN x.k = "ninf"
    ELSE IF IsInf(y) THEN y.k = "pinf"
    ELSE Sign(Sub(x, y)) < 0

\* Math.max / Math.min: NaN if either argument is NaN.
MathMax(x, y) == IF IsNaN(x) \/ IsNaN(y) THEN NaN ELSE IF Less(x, y) THEN y ELSE x
MathMin(x, y) == IF IsNaN(x) \/ IsNaN(y) THEN NaN ELSE IF Less(y, x) THEN y ELSE x

----------------------------------------------------------------------------
(* The preset catalog (filterPresets) and the pixel transform. *)

Preset(nm, b, c, w, s) ==
    [name |-> nm, brightness |-> b, contrast |-> c, warmth |-> w, saturation |-> s]

filterPresets ==
    << Preset("Auto Enhance", Lit(105, 100), Lit(110, 100), Lit(2, 100), Lit(108, 100)),
       Preset("Golden Hour", Lit(108, 100), Lit(105, 100), Lit(8, 100), Lit(112, 100)),
       Preset("Cool Studio", Lit(102, 100), Lit(112, 100), Lit(-6, 100), Lit(104, 100)),
       Preset("Vintage Film", Lit(103, 100), Lit(92, 100), Lit(3, 100), Lit(90, 100)) >>

\* clamp without the lower limit.
clampUpperOnly(value) == MathMin(Num(255), value)

\* const clamp = (value) => Math.min(255, Math.max(0, value))
clamp(value) == MathMin(Num(255), MathMax(Num(0), value))

\* const gray = 0.3 * r + 0.59 * g + 0.11 * b
Luminance(r, g, b) ==
    Add(Add(Mul(Lit(3, 10), r), Mul(Lit(59, 100), g)), Mul(Lit(11, 100), b))

\* The blend taken from the channel toward gray instead of from gray toward it.
adjustSaturationSwapped(r, g, b, saturation) ==
    LET gray == Luminance(r, g, b)
    IN  << clamp(Add(r, Mul(Sub(gray, r), saturation))),
           clamp(Add(g, Mul(Sub(gray, g), saturation))),
           clamp(Add(b, Mul(Sub(gray, b), saturation))) >>

adjustSaturation(r, g, b, saturation) ==
    LET gray == Luminance(r, g, b)
    IN  << clamp(Add(gray, Mul(Sub(r, gray), saturation))),
           clamp(Add(gray, Mul(Sub(g, gray), saturation))),
           clamp(Add(gray, Mul(Sub(b, gray), saturation))) >>

\* The factor with contrast taken as a percentage step on the 0..255 scale.
FactorUnscaled(contrast) ==
    Div(Mul(Num(259), Add(contrast, Num(255))),
        Mul(Num(255), Sub(Num(259), contrast)))

\* const factor = (259 * (contrast * 255 + 255)) / (255 * (259 - contrast * 255))
Factor(contrast) ==
    Div(Mul(Num(259), Add(Mul(contrast, Num(255)), Num(255))),
        Mul(Num(255), Sub(Num(259), Mul(contrast, Num(255)))))

\* The remap that does not add the mid-gray back.
ContrastRemapNoRecentre(factor, v) == Mul(factor, Sub(v, Num(128)))

\* adjusted = factor * (v - 128) + 128
ContrastRemap(factor, v) == Add(Mul(factor, Sub(v, Num(128))), Num(128))

\* The multipliers with warmth added to both red and blue.
ChannelScaleSameSign(preset) ==
    << Add(preset.brightness, preset.warmth),
       preset.brightness,
       Add(preset.brightness, preset.warmth) >>

\* The multipliers of adjustedR, adjustedG, adjustedB:
\* brightness + warmth, brightness, brightness - warmth.
ChannelScale(preset) ==
    << Add(preset.brightness, preset.warmth),
       preset.brightness,
       Sub(preset.brightness, preset.warmth) >>

\* The transform with each scaled channel clamped before the saturation blend.
PixelValuesClampEarly(r, g, b, preset) ==
    LET factor == Factor(preset.contrast)
        adjustedR == Mul(ContrastRemap(factor, r), ChannelScale(preset)[1])
        adjustedG == Mul(ContrastRemap(factor, g), ChannelScale(preset)[2])
        adjustedB == Mul(ContrastRemap(factor, b), ChannelScale(preset)[3])
    IN  adjustSaturation(clamp(adjustedR), clamp(adjustedG), clamp(adjustedB),
                         preset.saturation)

\* The three values one loop iteration hands to data[i], data[i+1], data[i+2],
\* from the three numbers it read.
PixelValues(r, g, b, preset) ==
    LET factor == Factor(preset.contrast)
        adjustedR == Mul(ContrastRemap(factor, r), ChannelScale(preset)[1])
        adjustedG == Mul(ContrastRemap(factor, g), ChannelScale(preset)[2])
        adjustedB == Mul(ContrastRemap(factor, b), ChannelScale(preset)[3])
    IN  adjustSaturation(adjustedR, adjustedG, adjustedB, preset.saturation)

\* A store that does not convert NaN: the element then holds no byte, written -1.
ToUint8ClampKeepNaN(x) ==
    IF IsNaN(x) THEN -1
    ELSE IF ~Less(Num(0), x) THEN 0
    ELSE IF ~Less(x, Num(255)) THEN 255
    ELSE IF 2 * x.n > x.d THEN x.i + 1
    ELSE IF 2 * x.n < x.d THEN x.i
    ELSE IF x.i % 2 = 1 THEN x.i + 1 ELSE x.i

\* A store into imageData.data, a Uint8ClampedArray: NaN becomes 0, the value is
\* clamped to 0..255 and rounded to the nearest integer, ties to even.
ToUint8Clamp(x) ==
    IF IsNaN(x) THEN 0
    ELSE IF ~Less(Num(0), x) THEN 0
    ELSE IF ~Less(x, Num(255)) THEN 255
    ELSE IF 2 * x.n > x.d THEN x.i + 1
    ELSE IF 2 * x.n < x.d THEN x.i
    ELSE IF x.i % 2 = 1 THEN x.i + 1 ELSE x.i

\* A read of data[i] (i counted from 0 as in the source).
ReadByte(data, i) == Num(data[i + 1])

\* The loop that treats the fourth byte of a pixel as one more colour channel.
RECURSIVE ApplyLoopAlpha(_, _, _)
ApplyLoopAlpha(data, i, preset) ==
    IF i >= Len(data) THEN data
    ELSE LET out == PixelValues(ReadByte(data, i), ReadByte(data, i + 1),
                                ReadByte(data, i + 3), preset)
         IN  ApplyLoopAlpha([data EXCEPT ![i + 1] = ToUint8Clamp(out[1]),
                                         ![i + 2] = ToUint8Clamp(out[2]),
                                         ![i + 3] = ToUint8Clamp(out[3]),
                                         ![i + 4] = ToUint8Clamp(out[3])],
                            i + 4, preset)

\* for (let i = 0; i < data.length; i += 4) { ... }
RECURSIVE ApplyLoop(_, _, _)
ApplyLoop(data, i, preset) ==
    IF i >= Len(data) THEN data
    ELSE LET out == PixelValues(ReadByte(data, i), ReadByte(data, i + 1),
                                ReadByte(data, i + 2), preset)
         IN  ApplyLoop([data EXCEPT ![i + 1] = ToUint8Clamp(out[1]),
                                    ![i + 2] = ToUint8Clamp(out[2]),
                                    ![i + 3] = ToUint8Clamp(out[3])],
                       i + 4, preset)

applyFilters(data, preset) == ApplyLoop(data, 0, preset)

\* currentPreset: filterPresets.find((p) => p.name === presetName) ?? filterPresets[0]
Find(nm) ==
    LET hits == {j \in 1..Len(filterPresets) : filterPresets[j].name = nm}
    IN  IF hits = {} THEN 0 ELSE CHOOSE j \in hits : \A m \in hits : j <= m

\* The lookup that falls back to the last catalog entry.
CurrentPresetOfLastFallback(nm) ==
    IF Find(nm) = 0 THEN filterPresets[Len(filterPresets)] ELSE filterPresets[Find(nm)]

CurrentPresetOf(nm) ==
    IF Find(nm) = 0 THEN filterPresets[1] ELSE filterPresets[Find(nm)]

----------------------------------------------------------------------------
(* Direct calls of applyFilters: the buffers and presets the calls are made on. *)

One == Num(1)
Zero == Num(0)

\* Presets beside the catalog: applyFilters takes any FilterPreset.
TestPresets ==
    { Preset("factor one", One, Zero, Zero, One),
      Preset("contrast one", One, One, Zero, One),
      Preset("grayscale", Lit(105, 100), Lit(92, 100), Lit(3, 100), Zero),
      Preset("grayscale enhance", Lit(105, 100), Lit(110, 100), Lit(2, 100), Zero),
      Preset("singular", One, Lit(259, 255), Zero, One),
      Preset("singular grayscale", Lit(105, 100), Lit(259, 255), Lit(2, 100), Zero),
      Preset("warm extreme", One, Zero, Num(2), One) }

Presets == {filterPresets[j] : j \in 1..Len(filterPresets)} \cup TestPresets

\* The pixels (R, G, B, A) the buffers are cut from.
SampleImage ==
    << <<0, 0, 0, 255>>, <<128, 128, 128, 128>>, <<255, 255, 255, 0>>,
       <<100, 100, 100, 255>>, <<200, 150, 100, 255>>, <<10, 240, 128, 255>>,
       <<255, 0, 0, 128>>, <<0, 0, 255, 77>>, <<127, 129, 128, 255>>,
       <<60, 200, 130, 0>> >>
AlphaVals == {0, 77, 128, 255}

RECURSIVE Flatten(_)
Flatten(ps) == IF ps = <<>> THEN <<>> ELSE Head(ps) \o Flatten(Tail(ps))

\* The RGBA buffers of 1..MaxPixels pixels: the runs of neighbouring sample pixels.
Buffers ==
    UNION { { Flatten(SubSeq(SampleImage, a, a + k - 1)) :
                  a \in 1..(Len(SampleImage) - k + 1) } : k \in 1..MaxPixels }

NumPixels(data) == Len(data) \div 4
Pixel(data, p) == SubSeq(data, 4 * p - 3, 4 * p)

InitFilter ==
    /\ fData \in Buffers
    /\ fInput = fData
    /\ fPreset \in Presets
    /\ fCalls = 0

\* processed = applyFilters(imageData, preset): the buffer is changed in place.
ApplyFiltersCall ==
    /\ fCalls < MaxCalls
    /\ fInput' = fData
    /\ fData' = applyFilters(fData, fPreset)
    /\ fCalls' = fCalls + 1
    /\ UNCHANGED <<fPreset, appVars>>

----------------------------------------------------------------------------
(* The ImageProcessor component. *)

NULL == <<>>
\* reader.result of a file: a data URL, never empty.
DataUrl(file) == <<"data", file>>
\* canvas.toDataURL("image/png") of the pixels the canvas holds.
PngUrl(pixels) == <<"png", pixels>>

\* The files the user can pick; NoFile is a change event with an empty file list.
ImageFiles == {"a.png", "b.png"}
Files == ImageFiles \cup {"notes.txt"}
NoFile == "none"

\* The pixels an image file decodes to.
Decoded(file) ==
    IF file = "a.png" THEN <<200, 150, 100, 255>>
    ELSE <<10, 240, 128, 255, 128, 128, 128, 255>>

\* event.target.value of the preset <select>; the handler stores whatever string it
\* is given, so a name outside the catalog is among the inputs.
PresetNameInputs == {filterPresets[j].name : j \in 1..Len(filterPresets)} \cup {"Unlisted"}

\* useMemo(() => filterPresets.find(...) ?? filterPresets[0], [presetName])
currentPreset == CurrentPresetOf(presetName)

\* <canvas ref={canvasRef}> is rendered only under {sourceUrl ? ... : ...}, so
\* canvasRef.current is the element exactly when sourceUrl is set.
CanvasMounted == sourceUrl # NULL

\* The disabled flags of the three buttons.
ApplyEnabled == sourceUrl # NULL /\ ~isProcessing
ResetEnabled == sourceUrl # NULL /\ ~isProcessing
DownloadEnabled == processedUrl # NULL /\ ~isProcessing

InitApp ==
    /\ sourceUrl = NULL
    /\ processedUrl = NULL
    /\ presetName = filterPresets[1].name
    /\ statusMessage = "Upload an image to begin."
    /\ isProcessing = FALSE
    /\ canvas = <<>>
    /\ uploads = <<>>
    /\ timers = <<>>
    /\ resets = <<>>
    /\ downloaded = NULL

\* No direct call is in progress while the component runs.
IdleFilter ==
    /\ fData = <<>>
    /\ fInput = <<>>
    /\ fPreset = filterPresets[1]
    /\ fCalls = 0

\* onChange of the preset <select>: setPresetName(event.target.value)
SetPresetName(nm) ==
    /\ presetName' = nm
    /\ UNCHANGED <<sourceUrl, processedUrl, statusMessage, isProcessing, canvas,
                   uploads, timers, resets, downloaded, filterVars>>

\* handleFileChange: returns on an empty file list, else starts a FileReader.
handleFileChange(file) ==
    /\ Len(uploads) < MaxUploads
    /\ uploads' = IF file = NoFile THEN uploads
                  ELSE Append(uploads, [file |-> file, stage |-> "reading"])
    /\ UNCHANGED <<sourceUrl, processedUrl, presetName, statusMessage, isProcessing,
                   canvas, timers, resets, downloaded, filterVars>>

\* reader.onload: returns on an empty result, else starts decoding image.src = result.
ReaderOnload(u) ==
    /\ uploads[u].stage = "reading"
    /\ uploads' = [uploads EXCEPT ![u].stage =
                      IF DataUrl(uploads[u].file) = NULL THEN "done" ELSE "decoding"]
    /\ UNCHANGED <<sourceUrl, processedUrl, presetName, statusMessage, isProcessing,
                   canvas, timers, resets, downloaded, filterVars>>

\* image.onload of an upload (it fires only for a file that decodes as an image):
\* returns when canvasRef.current is null, else draws the image and sets the state.
UploadImageOnload(u) ==
    /\ uploads[u].stage = "decoding"
    /\ uploads[u].file \in ImageFiles
    /\ uploads' = [uploads EXCEPT ![u].stage = "done"]
    /\ IF ~CanvasMounted
       THEN UNCHANGED <<canvas, sourceUrl, processedUrl, statusMessage>>
       ELSE /\ canvas' = Decoded(uploads[u].file)
            /\ sourceUrl' = DataUrl(uploads[u].file)
            /\ processedUrl' = NULL
            /\ statusMessage' = "Image loaded. Choose a style and apply AI enhancement."
    /\ UNCHANGED <<presetName, isProcessing, timers, resets, downloaded, filterVars>>

\* handleProcess (the Apply button): returns when canvasRef.current is null, else
\* sets isProcessing and starts the 400 ms timer, whose callback closes over the
\* currentPreset of this render.
handleProcess ==
    /\ ApplyEnabled
    /\ IF ~CanvasMounted
       THEN UNCHANGED <<isProcessing, statusMessage, timers>>
       ELSE /\ isProcessing' = TRUE
            /\ statusMessage' = "Running AI enhancement..."
            /\ timers' = Append(timers, [preset |-> currentPreset])
    /\ UNCHANGED <<sourceUrl, processedUrl, presetName, canvas, uploads, resets,
                   downloaded, filterVars>>

\* The timeout callback: getImageData, applyFilters, putImageData, toDataURL.
ProcessTimeout ==
    /\ timers # <<>>
    /\ canvas' = applyFilters(canvas, Head(timers).preset)
    /\ processedUrl' = PngUrl(canvas')
    /\ isProcessing' = FALSE
    /\ statusMessage' = "AI enhancement complete. Download or refine."
    /\ timers' = Tail(timers)
    /\ UNCHANGED <<sourceUrl, presetName, uploads, resets, downloaded, filterVars>>

\* handleReset: returns when sourceUrl or canvasRef.current is null, else starts
\* loading image.src = sourceUrl.
handleReset ==
    /\ ResetEnabled
    /\ resets' = IF sourceUrl = NULL \/ ~CanvasMounted THEN resets
                 ELSE Append(resets, sourceUrl)
    /\ UNCHANGED <<sourceUrl, processedUrl, presetName, statusMessage, isProcessing,
                   canvas, uploads, timers, downloaded, filterVars>>

\* image.onload of a reset: redraws the source image and clears processedUrl.
ResetImageOnload(r) ==
    /\ r \in 1..Len(resets)
    /\ resets' = SubSeq(resets, 1, r - 1) \o SubSeq(resets, r + 1, Len(resets))
    /\ IF ~CanvasMounted
       THEN UNCHANGED <<canvas, processedUrl, statusMessage>>
       ELSE /\ canvas' = Decoded(resets[r][2])
            /\ processedUrl' = NULL
            /\ statusMessage' = "Reset complete. Try a different AI style."
    /\ UNCHANGED <<sourceUrl, presetName, isProcessing, uploads, timers, downloaded,
                   filterVars>>

\* handleDownload: returns when processedUrl is null, else clicks a link to it.
handleDownload ==
    /\ DownloadEnabled
    /\ downloaded' = IF processedUrl = NULL THEN downloaded ELSE processedUrl
    /\ UNCHANGED <<sourceUrl, processedUrl, presetName, statusMessage, isProcessing,
                   canvas, uploads, timers, resets, filterVars>>

\* The steps the component can take.  handleProcess, ProcessTimeout, handleReset,
\* ResetImageOnload and handleDownload are behind buttons that stay disabled as
\* long as sourceUrl is null (ButtonsStayDisabled), so they add no step.
Next ==
    \/ \E nm \in PresetNameInputs : SetPresetName(nm)
    \/ \E file \in Files \cup {NoFile} : handleFileChange(file)
    \/ \E u \in 1..Len(uploads) : ReaderOnload(u)
    \/ \E u \in 1..Len(uploads) : UploadImageOnload(u)

Init == InitApp /\ IdleFilter

Spec == Init /\ [][Next]_vars

\* The state before a direct call, its inputs drawn from the bounded sets.
InitCall == InitApp /\ InitFilter

SpecFilter == InitCall /\ [][ApplyFiltersCall]_vars

\* A call that can be made is made and runs to its end (applyFilters is synchronous
\* and nothing it waits for): the steps that count a call are those of
\* ApplyFiltersCall, stated on fCalls alone.
CallCounted == fCalls < MaxCalls /\ fCalls' = fCalls + 1
SpecFilterFair == SpecFilter /\ WF_fCalls(CallCounted)

\* None of the button handlers or their callbacks can ever run.
ButtonsStayDisabled ==
    /\ ~ApplyEnabled /\ ~ResetEnabled /\ ~DownloadEnabled
    /\ timers = <<>> /\ resets = <<>>

\* No image is ever loaded, no processing run ever starts or publishes a result,
\* and nothing is ever downloaded: the cases of the claims about the timer, Reset
\* and Download (all-or-nothing runs, the canvas against sourceUrl, processedUrl
\* against the canvas, one pending timer, the preset of a run) do not occur.
NoRunEver ==
    /\ sourceUrl = NULL /\ canvas = <<>>
    /\ processedUrl = NULL /\ downloaded = NULL
    /\ ~isProcessing /\ timers = <<>> /\ resets = <<>>
    /\ ~ENABLED handleProcess /\ ~ENABLED handleReset /\ ~ENABLED handleDownload
    /\ ~ENABLED ProcessTimeout /\ \A r \in 1..1 : ~ENABLED ResetImageOnload(r)

----------------------------------------------------------------------------
(* The claims. *)

\* Byte c (1 = R, 2 = G, 3 = B, 4 = A) of pixel p of a buffer.
Chan(data, p, c) == data[4 * (p - 1) + c]

\* The three values the last call handed to the store for pixel p.
Written(p) ==
    PixelValues(Num(Chan(fInput, p, 1)), Num(Chan(fInput, p, 2)),
                Num(Chan(fInput, p, 3)), fPreset)

InByteRange(v) == ~Less(v, Num(0)) /\ ~Less(Num(255), v)

\* C1 (as claimed): once a valid image file's read and decode callbacks have fired,
\* the image is loaded: sourceUrl is set, the canvas holds the image and Apply is
\* enabled.
C1_UploadLoadsImage ==
    \A u \in 1..Len(uploads) :
        (uploads[u].stage = "done" /\ uploads[u].file \in ImageFiles)
            => (sourceUrl # NULL /\ canvas # <<>> /\ ApplyEnabled)

\* C2: after applyFilters every R, G and B byte of the buffer lies in 0..255, and
\* every number clamp returned for them lies in [0, 255] (a NaN, which the store
\* turns into 0, is the one value clamp passes through).
C2_OutputInRange ==
    fCalls > 0 =>
        /\ \A j \in 1..Len(fData) : fData[j] >= 0 /\ fData[j] <= 255
        /\ \A p \in 1..NumPixels(fInput) : \A c \in 1..3 :
               IsNaN(Written(p)[c]) \/ InByteRange(Written(p)[c])

C2_Witness ==
    /\ fCalls > 0
    /\ fPreset = filterPresets[1]
    /\ fInput = <<200, 150, 100, 255>>
    /\ fData = <<0, 0, 255, 255>>

\* The buffer with the alpha byte of every pixel replaced by a.
WithAlpha(data, a) == [j \in 1..Len(data) |-> IF j % 4 = 0 THEN a ELSE data[j]]

\* C3: applyFilters leaves every alpha byte as it was, and the R, G and B bytes it
\* produces are the same whatever the alpha bytes of the input are.
C3_AlphaUntouched ==
    fCalls > 0 =>
        /\ Len(fData) = Len(fInput)
        /\ \A j \in 1..Len(fData) : j % 4 = 0 => fData[j] = fInput[j]
        /\ \A a \in AlphaVals :
               \A j \in 1..Len(fData) :
                   j % 4 # 0 => applyFilters(WithAlpha(fInput, a), fPreset)[j] = fData[j]

C3_Witness ==
    /\ fCalls > 0
    /\ fInput[4] = 128
    /\ fData[4] = 128
    /\ SubSeq(fData, 1, 3) # SubSeq(fInput, 1, 3)

\* The reference sequence of the specification, step by step.
RefClamp(v) ==
    IF IsNaN(v) THEN v
    ELSE IF Less(v, Num(0)) THEN Num(0)
    ELSE IF Less(Num(255), v) THEN Num(255) ELSE v

RefPixel(r, g, b, preset) ==
    LET factor == Div(Mul(Num(259), Add(Mul(preset.contrast, Num(255)), Num(255))),
                      Mul(Num(255), Sub(Num(259), Mul(preset.contrast, Num(255)))))
        r1 == Add(Mul(factor, Sub(r, Num(128))), Num(128))
        g1 == Add(Mul(factor, Sub(g, Num(128))), Num(128))
        b1 == Add(Mul(factor, Sub(b, Num(128))), Num(128))
        r2 == Mul(r1, Add(preset.brightness, preset.warmth))
        g2 == Mul(g1, preset.brightness)
        b2 == Mul(b1, Sub(preset.brightness, preset.warmth))
        gray == Add(Add(Mul(Lit(30, 100), r2), Mul(Lit(59, 100), g2)), Mul(Lit(11, 100), b2))
    IN  << RefClamp(Add(gray, Mul(Sub(r2, gray), preset.saturation))),
           RefClamp(Add(gray, Mul(Sub(g2, gray), preset.saturation))),
           RefClamp(Add(gray, Mul(Sub(b2, gray), preset.saturation))) >>

RefOf(p) ==
    RefPixel(Num(Chan(fInput, p, 1)), Num(Chan(fInput, p, 2)),
             Num(Chan(fInput, p, 3)), fPreset)

\* C4: for every pixel the values applyFilters computes, and the bytes it leaves,
\* are those of the reference sequence: contrast remap, channel scaling, luminance
\* of the scaled values, saturation blend, and one clamp at the end.
C4_ReferenceSequence ==
    fCalls > 0 =>
        \A p \in 1..NumPixels(fInput) :
            /\ Written(p) = RefOf(p)
            /\ \A c \in 1..3 : Chan(fData, p, c) = ToUint8Clamp(RefOf(p)[c])

\* A pixel whose scaled R is below 0 and scaled G above 255 while its B ends inside.
C4_Witness ==
    /\ fCalls > 0
    /\ fPreset = filterPresets[4]
    /\ fInput = <<10, 240, 128, 255>>
    /\ fData = <<0, 255, 191, 255>>

SafeContrast(c) == Less(Num(0), c) /\ Less(c, Lit(1015, 1000))

\* C5 (as claimed): the contrast of the preset handleProcess passes to applyFilters
\* (the currentPreset) lies in 0 < contrast < 1.015, so that 259 - contrast*255 is
\* positive and the factor is positive and finite.
C5_ContrastInSafeRange ==
    /\ SafeContrast(currentPreset.contrast)
    /\ Sign(Sub(Num(259), Mul(currentPreset.contrast, Num(255)))) > 0
    /\ IsFin(Factor(currentPreset.contrast))
    /\ Sign(Factor(currentPreset.contrast)) > 0

\* The luminance of the brightness/warmth-scaled values of pixel p of the input.
ScaledLuminance(p) ==
    LET factor == Factor(fPreset.contrast)
        r2 == Mul(ContrastRemap(factor, Num(Chan(fInput, p, 1))),
                  Add(fPreset.brightness, fPreset.warmth))
        g2 == Mul(ContrastRemap(factor, Num(Chan(fInput, p, 2))), fPreset.brightness)
        b2 == Mul(ContrastRemap(factor, Num(Chan(fInput, p, 3))),
                  Sub(fPreset.brightness, fPreset.warmth))
    IN  Add(Add(Mul(Lit(3, 10), r2), Mul(Lit(59, 100), g2)), Mul(Lit(11, 100), b2))

IsGray(data, p) == Chan(data, p, 1) = Chan(data, p, 2) /\ Chan(data, p, 2) = Chan(data, p, 3)

\* C7: under a preset with brightness = 1, warmth = 0, saturation = 1 and factor = 1,
\* a call leaves every gray pixel (R = G = B) as it was, call after call.
C7_GrayFixedPoint ==
    ( /\ fCalls > 0
      /\ fPreset.brightness = One /\ fPreset.warmth = Zero /\ fPreset.saturation = One
      /\ Factor(fPreset.contrast) = One )
        => \A p \in 1..NumPixels(fInput) :
               IsGray(fInput, p) => \A c \in 1..4 : Chan(fData, p, c) = Chan(fInput, p, c)

C7_Witness ==
    /\ fCalls = 2
    /\ fPreset.brightness = One /\ fPreset.warmth = Zero /\ fPreset.saturation = One
    /\ Factor(fPreset.contrast) = One
    /\ SubSeq(fInput, 1, 3) = <<100, 100, 100>>
    /\ SubSeq(fData, 1, 3) = <<100, 100, 100>>

\* C8 (as claimed): the factor for contrast = 1.0 is about 133.9 (133.9 to one
\* decimal place), and is not 1.
C8_FactorAbout1339 ==
    fPreset.contrast = One =>
        /\ ~Less(Factor(fPreset.contrast), Lit(13385, 100))
        /\ Less(Factor(fPreset.contrast), Lit(13395, 100))
        /\ Factor(fPreset.contrast) # One

\* C8 (amended): the factor for contrast = 1.0 is (259*510)/(255*4) = 129.5, so a
\* call with contrast = 1.0 is not an identity remap.
C8_FactorAtContrastOne ==
    fPreset.contrast = One =>
        /\ Factor(fPreset.contrast) = Div(Num(259 * 510), Num(255 * 4))
        /\ Factor(fPreset.contrast) = Lit(1295, 10)
        /\ Factor(fPreset.contrast) # One
        /\ (fCalls > 0 /\ fPreset.brightness = One /\ fPreset.saturation = One) =>
               \A p \in 1..NumPixels(fInput) :
                   Written(p)[2] = RefClamp(Add(Mul(Lit(1295, 10),
                                       Sub(Num(Chan(fInput, p, 2)), Num(128))), Num(128)))

C8_Witness ==
    /\ fCalls > 0
    /\ fPreset = Preset("contrast one", One, One, Zero, One)
    /\ fInput = <<127, 129, 128, 255>>
    /\ fData # fInput

\* C9: on every buffer whose length is a multiple of 4 and every preset, the
\* singular contrast 259/255 and those beyond it included, every call completes
\* (all MaxCalls calls on the buffer get made) and leaves a byte 0..255 in every
\* R, G and B position.
C9_Total ==
    /\ <>(fCalls = MaxCalls)
    /\ [](fCalls > 0 =>
             /\ Len(fData) = Len(fInput)
             /\ \A p \in 1..NumPixels(fData) : \A c \in 1..3 :
                    Chan(fData, p, c) >= 0 /\ Chan(fData, p, c) <= 255)

\* The singular contrast on a pixel with a channel at 128: Infinity * 0 = NaN.
C9_Witness ==
    /\ fCalls > 0
    /\ fPreset.contrast = Lit(259, 255)
    /\ ~IsFin(Factor(fPreset.contrast))
    /\ fInput[3] = 128
    /\ IsNaN(Written(1)[1])

CatalogNames == {filterPresets[j].name : j \in 1..Len(filterPresets)}

\* C10: the active preset is the catalog entry with the selected name; for a
\* selected name that matches no entry it is the first entry, Auto Enhance; and
\* the initial selection is the first entry.
C10_ActivePreset ==
    /\ presetName = filterPresets[1].name
    /\ [](/\ \A j \in 1..Len(filterPresets) :
                 presetName = filterPresets[j].name => currentPreset = filterPresets[j]
          /\ presetName \notin CatalogNames =>
                 (currentPreset = filterPresets[1] /\ currentPreset.name = "Auto Enhance"))

C10_Witness == presetName \notin CatalogNames /\ uploads # <<>>

\* The preset with the sign of its warmth swapped.
NegatedWarmth(preset) == [preset EXCEPT !.warmth = Neg(preset.warmth)]

\* C13: with warmth w the multipliers of the scaling step are brightness + w for R,
\* brightness for G and brightness - w for B; with -w the multipliers of R and B
\* are swapped and that of G is the same.
C13_WarmthSwap ==
    LET b == fPreset.brightness
        w == fPreset.warmth
        with == ChannelScale(fPreset)
        against == ChannelScale(NegatedWarmth(fPreset))
    IN  /\ with = <<Add(b, w), b, Sub(b, w)>>
        /\ against = <<Sub(b, w), b, Add(b, w)>>
        /\ against[1] = with[3] /\ against[3] = with[1] /\ against[2] = with[2]

\* A call made under a preset whose warmth is not 0, so that the swap changes R and B.
C13_Witness ==
    /\ fCalls > 0
    /\ fPreset.warmth # Zero
    /\ ChannelScale(fPreset)[1] # ChannelScale(fPreset)[3]
    /\ ChannelScale(NegatedWarmth(fPreset))[1] # ChannelScale(fPreset)[1]

====
